---- MODULE Spec2Model ----
(***************************************************************************)
(* Model of medical_imaging/medical.py: a Streamlit script that writes     *)
(* each uploaded image to a temp file, resizes it, sends it to an agent,   *)
(* stores (filename, report) pairs in the session history and renders a    *)
(* two-report comparison.                                                  *)
(*                                                                         *)
(* Strings are sequences of one-character strings, so that concatenation   *)
(* (f"temp_{name}", f"... Analysis error: {e}") and substring tests are    *)
(* computed.  Python floats are IEEE-754 doubles, modelled by a 53-bit     *)
(* mantissa held in two limbs and an exponent, with round-half-even        *)
(* division.                                                               *)
(***************************************************************************)
EXTENDS Integers, Sequences, FiniteSets, TLC

VARIABLES GEMINI_API_KEY, fs, session, resize

vars == <<GEMINI_API_KEY, fs, session, resize>>

\* ------------------------------------------------------------ bounds

\* Most files ever handed to analyze_medical_image in one session.
MaxAnalyses == 3

\* The same, per session, when two sessions run side by side.
ConcMaxAnalyses == 2

\* Largest image width and height of the resize function's inputs.
MaxWidth == 502

MaxHeight == 3

\* ------------------------------------------------------------ strings

\* The warning sign that opens an error report, held as one element.
WarningSign == "(warning sign)"

Str_temp_ == <<"t", "e", "m", "p", "_">>

Str_resized_image_png ==
    <<"r", "e", "s", "i", "z", "e", "d", "_", "i", "m", "a", "g", "e", ".", "p", "n", "g">>

Str_Analysis_error ==
    <<"A", "n", "a", "l", "y", "s", "i", "s", " ", "e", "r", "r", "o", "r">>

Str_analysis_error ==
    <<"a", "n", "a", "l", "y", "s", "i", "s", " ", "e", "r", "r", "o", "r">>

\* s[i..] starts with t
StartsAt(s, i, t) ==
    /\ i + Len(t) - 1 <= Len(s)
    /\ \A k \in 1..Len(t) : s[i + k - 1] = t[k]

\* Python's `t in s`
Contains(s, t) == \E i \in 1..(Len(s) + 1) : StartsAt(s, i, t)

StartsWith(s, t) == StartsAt(s, 1, t)

\* ------------------------------------------------------------ floats

LoBase == 2^27

MantBits == 52

Big(h, l) == [hi |-> h, lo |-> l]

BigGeq(a, b) == a.hi > b.hi \/ (a.hi = b.hi /\ a.lo >= b.lo)

BigSub(a, b) ==
    IF a.lo >= b.lo THEN Big(a.hi - b.hi, a.lo - b.lo)
    ELSE Big(a.hi - b.hi - 1, a.lo + LoBase - b.lo)

BigDouble(a) == Big(2 * a.hi + (2 * a.lo) \div LoBase, (2 * a.lo) % LoBase)

BigInc(a) == IF a.lo + 1 = LoBase THEN Big(a.hi + 1, 0) ELSE Big(a.hi, a.lo + 1)

RECURSIVE BitLen(_)
BitLen(n) == IF n = 0 THEN 0 ELSE 1 + BitLen(n \div 2)

\* float(n) for 1 <= n < 2^26: exact, mantissa normalised to 53 bits.
FromInt(n) ==
    [m |-> Big(n * 2^(MantBits - 26 - BitLen(n)), 0), e |-> BitLen(n) - 1 - MantBits]

\* n steps of binary long division: quotient s.q, remainder s.r, divisor d.
RECURSIVE DivSteps(_, _, _)
DivSteps(s, d, n) ==
    IF n = 0 THEN s
    ELSE LET r2 == BigDouble(s.r)
             q2 == BigDouble(s.q)
         IN IF BigGeq(r2, d)
            THEN DivSteps([q |-> BigInc(q2), r |-> BigSub(r2, d)], d, n - 1)
            ELSE DivSteps([q |-> q2, r |-> r2], d, n - 1)

\* x / y on doubles: the exact quotient rounded to 53 bits, ties to even.
FDiv(x, y) ==
    LET ge == BigGeq(x.m, y.m)
        r0 == IF ge THEN BigSub(x.m, y.m) ELSE BigSub(BigDouble(x.m), y.m)
        e0 == IF ge THEN x.e - y.e - MantBits ELSE x.e - y.e - MantBits - 1
        qr == DivSteps([q |-> Big(0, 1), r |-> r0], y.m, MantBits)
        tw == BigDouble(qr.r)
        up == IF tw = y.m THEN qr.q.lo % 2 = 1 ELSE BigGeq(tw, y.m)
        q1 == IF up THEN BigInc(qr.q) ELSE qr.q
    IN IF q1.hi = LoBase \div 2
       THEN [m |-> Big(LoBase \div 4, 0), e |-> e0 + 1]
       ELSE [m |-> q1, e |-> e0]

\* int(x): truncation toward zero of a positive double below 2^31.
Trunc(x) ==
    LET s == 0 - x.e
    IN IF s > MantBits THEN 0
       ELSE IF s >= 27 THEN x.m.hi \div 2^(s - 27)
       ELSE x.m.hi * 2^(27 - s) + x.m.lo \div 2^s

\* ------------------------------------------------------------ resize

new_width == 500

\* aspect_ratio = width / height; new_height = int(new_width / aspect_ratio)
new_height(width, height) ==
    Trunc(FDiv(FromInt(new_width), FDiv(FromInt(width), FromInt(height))))

\* image.resize((new_width, new_height)): a size below 1 raises ValueError.
ResizeRaises(width, height) == new_height(width, height) < 1

\* ------------------------------------------------------------ files

None == [some |-> FALSE]

Some(v) == [some |-> TRUE, val |-> v]

\* os.getenv("GEMINI_API_KEY"): unset, set to the empty string, or set.
KeyValues == {None, Some(<< >>), Some(<<"k">>)}

\* The check written as `GEMINI_API_KEY is None`: the empty string passes.
KeyIsNone(key) == ~key.some

\* `not GEMINI_API_KEY`: None and "" are both falsy.
KeyMissing(key) == ~key.some \/ key.val = << >>

NoFile == [valid |-> FALSE, id |-> "", w |-> 0, h |-> 0]

\* The bytes of an image file: decodable or not, which picture, its size.
ImageBytes(valid, id, w, h) == [valid |-> valid, id |-> id, w |-> w, h |-> h]

UploadedFile(name, data) == [name |-> name, data |-> data]

\* The files a user can upload: two good images, corrupt bytes, an image more
\* than 500 times wider than high, and a good image named resized_image.png.
FileA == UploadedFile(<<"a">>, ImageBytes(TRUE, "1", 4, 3))

FileD == UploadedFile(<<"d">>, ImageBytes(TRUE, "2", 25, 3))

FileB == UploadedFile(<<"b">>, ImageBytes(FALSE, "0", 0, 0))

FileC == UploadedFile(<<"c">>, ImageBytes(TRUE, "3", 501, 1))

FileR == UploadedFile(Str_resized_image_png, ImageBytes(TRUE, "4", 2, 1))

Catalog == {FileA, FileD, FileB, FileC, FileR}

\* What one submission of the file_uploader may hold.
Uploads == {<<FileA>>, <<FileA, FileD>>, <<FileB>>, <<FileD, FileC>>, <<FileR>>}

\* What each of two concurrent sessions uploads: different filenames.
ConcUploads(s) == IF s = 1 THEN {<<FileA>>} ELSE {<<FileD>>}

\* image_path = f"temp_{uploaded_file.name}"
image_path(name) == Str_temp_ \o name

temp_path == Str_temp_ \o Str_resized_image_png

Paths == {image_path(f.name) : f \in Catalog} \cup {temp_path}

\* PILImage.open succeeds on the bytes of an image of a known format.
Decodable(bytes) == bytes.valid

\* ------------------------------------------------------------ agent

\* str(e) of what medical_agent.run raises.
ErrDetails == {<<"t", "i", "m", "e", "o", "u", "t">>}

\* str(e) when the image file handed to the agent does not exist.
NoSuchFile == <<"n", "o", " ", "f", "i", "l", "e">>

ModelOutcomes == {None} \cup {Some(d) : d \in ErrDetails}

\* response.content: the agent's markdown report on the picture it was sent.
Content(id) == <<"#", " ", id>>

\* The error text with its first word in lower case.
ErrorReportLowercase(e) == <<WarningSign, " ">> \o Str_analysis_error \o <<":", " ">> \o e

\* f"<warning sign> Analysis error: {e}"
ErrorReport(e) == <<WarningSign, " ">> \o Str_Analysis_error \o <<":", " ">> \o e

\* ------------------------------------------------------------ comparison

\* The second selectbox given index=1: the second option.
DefaultSelectionSecond == <<1, 2>>

\* st.selectbox without index=: the first option.
DefaultSelection == <<1, 1>>

\* next(entry for entry in history if entry["filename"] == file)
FirstEntry(history, file) ==
    history[CHOOSE k \in 1..Len(history) :
                /\ history[k].filename = file
                /\ \A j \in 1..(k - 1) : history[j].filename # file]

\* The "Compare Reports" section: the two panels rendered, or none.
ComparePanels(history, sel) ==
    IF Len(history) >= 2
    THEN LET filenames == [k \in 1..Len(history) |-> history[k].filename]
             file1 == filenames[sel[1]]
             file2 == filenames[sel[2]]
         IN IF file1 # << >> /\ file2 # << >> /\ file1 # file2
            THEN <<FirstEntry(history, file1), FirstEntry(history, file2)>>
            ELSE << >>
    ELSE << >>

\* ------------------------------------------------------------ state

NoException == [type |-> "None", in |-> ""]

Raised(type, where) == [type |-> type, in |-> where]

InitSession ==
    [pc |-> "start", medical_agent |-> FALSE, error |-> FALSE,
     uploaded_files |-> << >>, i |-> 0, resized_image |-> NoFile,
     ret |-> << >>, failed |-> FALSE, report |-> << >>, history |-> << >>,
     exception |-> NoException, sel |-> DefaultSelection, touched |-> FALSE,
     panels |-> << >>, steps |-> << >>, submitted |-> << >>]

NoResize == [pc |-> "none", width |-> 0, height |-> 0, size |-> <<0, 0>>]

SerialSessions == {1}

ConcSessions == {1, 2}

InitFor(S) ==
    /\ GEMINI_API_KEY \in KeyValues
    /\ fs = [p \in Paths |-> NoFile]
    /\ session = [s \in S |-> InitSession]
    /\ resize = NoResize

Init == InitFor(SerialSessions)

ConcInit == InitFor(ConcSessions)

\* The uploaded file the loop of "Analyze All" is at.
uploaded_file(s) == session[s].uploaded_files[session[s].i]

Set(s, r) == session' = [session EXCEPT ![s] = r]

\* An uncaught exception ends the script run: nothing below it is rendered.
Abort(s, type, where) ==
    Set(s, [session[s] EXCEPT !.pc = "idle", !.exception = Raised(type, where)])

\* ------------------------------------------------------------ script runs

\* Lines 20-36 and 129-130, the first run of the script in a session: without
\* the key st.error and st.stop; with it the agent and the empty history.
Startup(s) ==
    /\ session[s].pc = "start"
    /\ IF KeyMissing(GEMINI_API_KEY)
       THEN Set(s, [session[s] EXCEPT !.pc = "stopped", !.error = TRUE])
       ELSE Set(s, [session[s] EXCEPT !.pc = "idle", !.medical_agent = TRUE])
    /\ UNCHANGED <<GEMINI_API_KEY, fs, resize>>

\* A rerun that analyses nothing: the file_uploader holds `files`, the page and
\* the comparison are rendered anew.
Upload(s, files) ==
    /\ session[s].pc = "idle"
    /\ Set(s, [session[s] EXCEPT
                 !.uploaded_files = files,
                 !.exception = NoException,
                 !.panels = ComparePanels(session[s].history, session[s].sel)])
    /\ UNCHANGED <<GEMINI_API_KEY, fs, resize>>

\* The user picks option v in selectbox k ("report1" or "report2"): a rerun.
SelectReport(s, k, v) ==
    /\ session[s].pc = "idle"
    /\ Len(session[s].history) >= 2
    /\ v \in 1..Len(session[s].history)
    /\ LET sel == [session[s].sel EXCEPT ![k] = v]
       IN Set(s, [session[s] EXCEPT
                    !.sel = sel,
                    !.touched = TRUE,
                    !.exception = NoException,
                    !.panels = ComparePanels(session[s].history, sel)])
    /\ UNCHANGED <<GEMINI_API_KEY, fs, resize>>

\* Lines 144-145: the button starts a rerun that enters the loop.
ClickAnalyzeAll(s, max) ==
    /\ session[s].pc = "idle"
    /\ session[s].uploaded_files # << >>
    /\ Len(session[s].submitted) + Len(session[s].uploaded_files) <= max
    /\ Set(s, [session[s] EXCEPT
                 !.pc = "write", !.i = 1, !.exception = NoException,
                 !.panels = << >>, !.steps = << >>])
    /\ UNCHANGED <<GEMINI_API_KEY, fs, resize>>

\* Lines 148-150: open(image_path, "wb") and write the upload's bytes.
WriteTemp(s) ==
    /\ session[s].pc = "write"
    /\ fs' = [fs EXCEPT ![image_path(uploaded_file(s).name)] = uploaded_file(s).data]
    /\ Set(s, [session[s] EXCEPT !.pc = "open", !.steps = <<"temp-write">>])
    /\ UNCHANGED <<GEMINI_API_KEY, resize>>

\* Lines 153 and 77-82: the call, PILImage.open, image.size, image.resize.
OpenResize(s) ==
    /\ session[s].pc = "open"
    /\ LET bytes == fs[image_path(uploaded_file(s).name)]
           me == [session[s] EXCEPT
                    !.submitted = Append(@, uploaded_file(s).name),
                    !.failed = FALSE]
       IN IF bytes = NoFile
          THEN Set(s, [me EXCEPT !.pc = "idle",
                         !.exception = Raised("FileNotFoundError", "analyze_medical_image")])
          ELSE IF ~Decodable(bytes)
          THEN Set(s, [me EXCEPT !.pc = "idle",
                         !.exception = Raised("UnidentifiedImageError", "analyze_medical_image")])
          ELSE IF ResizeRaises(bytes.w, bytes.h)
          THEN Set(s, [me EXCEPT !.pc = "idle",
                         !.exception = Raised("ValueError", "analyze_medical_image")])
          ELSE Set(s, [me EXCEPT !.pc = "save",
                         !.resized_image = ImageBytes(TRUE, bytes.id, new_width,
                                                      new_height(bytes.w, bytes.h))])
    /\ UNCHANGED <<GEMINI_API_KEY, fs, resize>>

\* Lines 84-87: resized_image.save(temp_path).
SaveResized(s) ==
    /\ session[s].pc = "save"
    /\ fs' = [fs EXCEPT ![temp_path] = session[s].resized_image]
    /\ Set(s, [session[s] EXCEPT !.pc = "run"])
    /\ UNCHANGED <<GEMINI_API_KEY, resize>>

\* Lines 89-93: medical_agent.run reads the file at temp_path; the value the
\* function is about to return is the response's content or the error text.
RunAgent(s, outcome) ==
    /\ session[s].pc = "run"
    /\ LET png == fs[temp_path]
           e == IF png = NoFile THEN Some(NoSuchFile) ELSE outcome
       IN Set(s, [session[s] EXCEPT
                    !.pc = "finally",
                    !.failed = e.some,
                    !.ret = IF e.some THEN ErrorReport(e.val) ELSE Content(png.id),
                    !.steps = Append(@, "model-call")])
    /\ UNCHANGED <<GEMINI_API_KEY, fs, resize>>

\* The function without its finally block: the resized file is left behind.
FinallyWithoutRemove(s) ==
    /\ session[s].pc = "finally"
    /\ Set(s, [session[s] EXCEPT
                 !.pc = "append",
                 !.report = session[s].ret,
                 !.steps = Append(@, "resized-delete")])
    /\ UNCHANGED <<GEMINI_API_KEY, fs, resize>>

\* Lines 94-95 and 153: os.remove(temp_path), then the return into `report`.
\* An exception raised in the finally block replaces the return.
Finally(s) ==
    /\ session[s].pc = "finally"
    /\ IF fs[temp_path] = NoFile
       THEN /\ Abort(s, "FileNotFoundError", "analyze_medical_image")
            /\ fs' = fs
       ELSE /\ fs' = [fs EXCEPT ![temp_path] = NoFile]
            /\ Set(s, [session[s] EXCEPT
                         !.pc = "append",
                         !.report = session[s].ret,
                         !.steps = Append(@, "resized-delete")])
    /\ UNCHANGED <<GEMINI_API_KEY, resize>>

\* Lines 156-159: st.session_state.history.append.  The selectboxes' options
\* are now another list, so both widgets are back at their default.
AppendHistory(s) ==
    /\ session[s].pc = "append"
    /\ Set(s, [session[s] EXCEPT
                 !.pc = "remove",
                 !.history = Append(@, [filename |-> uploaded_file(s).name,
                                        report |-> session[s].report]),
                 !.sel = DefaultSelection,
                 !.touched = FALSE,
                 !.steps = Append(@, "history-append")])
    /\ UNCHANGED <<GEMINI_API_KEY, fs, resize>>

\* Line 161: os.remove(image_path); then the next file, or after the last one
\* the rest of the script: the results and the comparison.
RemoveTemp(s) ==
    /\ session[s].pc = "remove"
    /\ IF fs[image_path(uploaded_file(s).name)] = NoFile
       THEN /\ Abort(s, "FileNotFoundError", "Analyze All")
            /\ fs' = fs
       ELSE /\ fs' = [fs EXCEPT ![image_path(uploaded_file(s).name)] = NoFile]
            /\ IF session[s].i < Len(session[s].uploaded_files)
               THEN Set(s, [session[s] EXCEPT
                              !.pc = "write", !.i = @ + 1,
                              !.steps = Append(@, "upload-delete")])
               ELSE Set(s, [session[s] EXCEPT
                              !.pc = "idle",
                              !.steps = Append(@, "upload-delete"),
                              !.panels = ComparePanels(session[s].history,
                                                       session[s].sel)])
    /\ UNCHANGED <<GEMINI_API_KEY, resize>>

\* One step of the file the loop is at.
AnalyzeStep(s) ==
    \/ WriteTemp(s)
    \/ OpenResize(s)
    \/ SaveResized(s)
    \/ \E outcome \in ModelOutcomes : RunAgent(s, outcome)
    \/ Finally(s)
    \/ AppendHistory(s)
    \/ RemoveTemp(s)

Next ==
    \E s \in SerialSessions :
        \/ Startup(s)
        \/ \E files \in Uploads : Upload(s, files)
        \/ \E k \in 1..2, v \in 1..MaxAnalyses : SelectReport(s, k, v)
        \/ ClickAnalyzeAll(s, MaxAnalyses)
        \/ AnalyzeStep(s)

Spec == Init /\ [][Next]_vars

\* Two sessions of one server process: one working directory, one environment.
ConcNext ==
    \E s \in ConcSessions :
        \/ Startup(s)
        \/ \E files \in ConcUploads(s) : Upload(s, files)
        \/ ClickAnalyzeAll(s, ConcMaxAnalyses)
        \/ AnalyzeStep(s)

ConcSpec == ConcInit /\ [][ConcNext]_vars

\* ------------------------------------------------------------ the resize alone

\* Lines 78-82 on a decoded image of size width x height.
ResizeInit ==
    /\ GEMINI_API_KEY = Some(<<"k">>)
    /\ fs = [p \in Paths |-> NoFile]
    /\ session = [s \in SerialSessions |-> InitSession]
    /\ resize \in {[pc |-> "call", width |-> w, height |-> h, size |-> <<0, 0>>] :
                     w \in 1..MaxWidth, h \in 1..MaxHeight}

ResizeImage ==
    /\ resize.pc = "call"
    /\ IF ResizeRaises(resize.width, resize.height)
       THEN resize' = [resize EXCEPT !.pc = "raised"]
       ELSE resize' = [resize EXCEPT
                         !.pc = "resized",
                         !.size = <<new_width, new_height(resize.width, resize.height)>>]
    /\ UNCHANGED <<GEMINI_API_KEY, fs, session>>

ResizeNext == ResizeImage

ResizeSpec == ResizeInit /\ [][ResizeNext]_vars

\* ------------------------------------------------------------ claims

\* The loop of "Analyze All" is between two files or over.
NoFileInHand(s) == session[s].pc \in {"idle", "write"}

\* The page of the last rerun was rendered to its end.
Rendered(s) == session[s].pc = "idle" /\ session[s].exception = NoException

Filenames(history) == [k \in 1..Len(history) |-> history[k].filename]

\* C1: once the handling of an uploaded file has ended, by a return or by an
\* exception, neither temp_<filename> nor temp_resized_image.png exists.
C1_TempFilesAbsentAfterHandling ==
    \A s \in DOMAIN session :
        NoFileInHand(s) /\ session[s].submitted # << >> =>
            \A p \in Paths : fs[p] = NoFile

\* C2: no failure of one image's pipeline leaves analyze_medical_image as an
\* exception: decode, resize and model failures all come back as a report.
C2_FailuresBecomeReports ==
    \A s \in DOMAIN session :
        session[s].exception.in # "analyze_medical_image"

\* C3: after N analyses, each succeeding or failing, the history holds exactly
\* N entries, whose filenames are those submitted, in submission order.
C3_HistoryIsTheSubmissions ==
    \A s \in DOMAIN session :
        session[s].pc = "idle" => Filenames(session[s].history) = session[s].submitted

\* C4: in the rendered comparison, two selected entries with different filenames
\* give the panels of exactly those two entries; the same filename twice gives
\* no panel.
C4_PanelsShowSelectedEntries ==
    \A s \in DOMAIN session :
        LET me == session[s]
            h == me.history
        IN Rendered(s) /\ Len(h) >= 2 =>
               IF h[me.sel[1]].filename # h[me.sel[2]].filename
               THEN me.panels = <<h[me.sel[1]], h[me.sel[2]]>>
               ELSE me.panels = << >>

\* The responses the agent gives on the pictures of the catalog.
Contents == {Content(f.data.id) : f \in Catalog}

ErrorPrefix == <<WarningSign, " ">> \o Str_Analysis_error \o <<":", " ">>

\* C5 as stated: the report stored for a failed model call contains the literal
\* substring "analysis error".
C5_StoredErrorHasLowercaseText ==
    \A s \in DOMAIN session :
        LET me == session[s]
        IN me.pc = "remove" /\ me.failed =>
               Contains(me.history[Len(me.history)].report, Str_analysis_error)

\* C5 as amended: the report stored for a failed model call is the warning sign
\* followed by "Analysis error: " and the details, and every stored report is
\* either such a text or a response of the agent.
C5_StoredErrorText ==
    \A s \in DOMAIN session :
        LET me == session[s]
        IN /\ me.pc = "remove" /\ me.failed =>
                  /\ StartsWith(me.history[Len(me.history)].report, ErrorPrefix)
                  /\ Contains(me.history[Len(me.history)].report, Str_Analysis_error)
           /\ \A k \in 1..Len(me.history) :
                  \/ me.history[k].report \in Contents
                  \/ StartsWith(me.history[k].report, ErrorPrefix)

\* Two files uploaded, both model calls failed: two entries, two error texts.
C5_TwoFailedAnalyses ==
    \E s \in DOMAIN session :
        LET me == session[s]
        IN /\ Rendered(s)
           /\ Len(me.submitted) = 2 /\ Len(me.uploaded_files) = 2
           /\ Len(me.history) = 2
           /\ me.history[1].filename # me.history[2].filename
           /\ \A k \in 1..2 :
                  /\ Contains(me.history[k].report, Str_Analysis_error)
                  /\ ~Contains(me.history[k].report, Str_analysis_error)

\* C6: with GEMINI_API_KEY unset or empty the run stops at the check: an error
\* is shown, and there is no agent, no upload, no model call, no temp file, no
\* history entry and no report of any kind.
C6_MissingKeyHalts ==
    (GEMINI_API_KEY = None \/ GEMINI_API_KEY = Some(<< >>)) =>
        /\ \A p \in Paths : fs[p] = NoFile
        /\ \A s \in DOMAIN session :
               LET me == session[s]
               IN /\ me.pc \in {"start", "stopped"}
                  /\ me.pc = "stopped" => me.error
                  /\ ~me.medical_agent
                  /\ me.uploaded_files = << >> /\ me.submitted = << >>
                  /\ me.ret = << >> /\ me.report = << >> /\ me.history = << >>
                  /\ me.exception = NoException

\* The key is set to the empty string and the script has stopped on it.
C6_StoppedOnEmptyKey ==
    /\ GEMINI_API_KEY = Some(<< >>)
    /\ \E s \in DOMAIN session : session[s].pc = "stopped" /\ session[s].error

\* C7: every image of size w x h is resized to width 500 and height
\* floor(500 * h / w), and that height is at least 1.
C7_ResizeToFloorHeight ==
    resize.pc \in {"resized", "raised"} =>
        /\ resize.pc = "resized"
        /\ resize.size = <<500, (500 * resize.height) \div resize.width>>
        /\ resize.size[2] >= 1

\* The first history index whose filename is not that of the first entry.
SecondDistinct(h) ==
    CHOOSE k \in 1..Len(h) :
        /\ h[k].filename # h[1].filename
        /\ \A j \in 1..(k - 1) : h[j].filename = h[1].filename

NoSelectionMade(s) == Rendered(s) /\ ~session[s].touched

\* C8 as stated: with two distinct filenames in the history and no selection made
\* by the user, the selectors stand at the first two distinct filenames and the
\* comparison of those two entries is rendered.
C8_DefaultsAreFirstTwoDistinct ==
    \A s \in DOMAIN session :
        LET me == session[s]
            h == me.history
        IN (/\ NoSelectionMade(s)
            /\ Len(h) >= 2
            /\ \E k \in 1..Len(h) : h[k].filename # h[1].filename) =>
               /\ me.sel = <<1, SecondDistinct(h)>>
               /\ me.panels = <<h[1], h[SecondDistinct(h)]>>

\* C8 as amended: with at least 2 entries in the history and no selection made by
\* the user, both selectors stand at the first entry's filename and no
\* comparison is rendered.
C8_DefaultsAreBothFirst ==
    \A s \in DOMAIN session :
        LET me == session[s]
        IN NoSelectionMade(s) /\ Len(me.history) >= 2 =>
               /\ me.sel = <<1, 1>>
               /\ me.panels = << >>

\* Two distinct filenames, no selection made, nothing compared.
C8_TwoFilenamesNothingCompared ==
    \E s \in DOMAIN session :
        LET me == session[s]
        IN /\ NoSelectionMade(s)
           /\ Len(me.history) >= 2
           /\ me.history[1].filename # me.history[2].filename
           /\ me.submitted # << >>
           /\ me.panels = << >>

\* C9 as stated: when a file's report has just been appended, its steps were
\* temp-write, model call, temp-delete, history append, and its temp files are
\* both gone.
C9_TempFilesGoneAtAppend ==
    \A s \in DOMAIN session :
        session[s].pc = "remove" =>
            /\ session[s].steps =
                   <<"temp-write", "model-call", "resized-delete", "history-append">>
            /\ fs[temp_path] = NoFile
            /\ fs[image_path(uploaded_file(s).name)] = NoFile

FileSteps ==
    <<"temp-write", "model-call", "resized-delete", "history-append", "upload-delete">>

IsPrefix(s, t) == Len(s) <= Len(t) /\ \A k \in 1..Len(s) : s[k] = t[k]

\* C9 as amended: a file's steps come in the order temp-write, model call,
\* delete of the resized temp file, history append, delete of the upload temp
\* file; the temp-write of the next file begins only after all five; and when
\* the report has just been appended the resized temp file is gone while the
\* upload temp file still holds the upload (unless it is the same path).
C9_StepOrder ==
    \A s \in DOMAIN session :
        LET me == session[s]
        IN /\ IsPrefix(me.steps, FileSteps)
           /\ me.pc = "write" /\ me.i > 1 => me.steps = FileSteps
           /\ me.pc = "open" => me.steps = <<"temp-write">>
           /\ me.pc = "remove" =>
                  /\ me.steps = SubSeq(FileSteps, 1, 4)
                  /\ fs[temp_path] = NoFile
                  /\ image_path(uploaded_file(s).name) # temp_path =>
                         fs[image_path(uploaded_file(s).name)] = uploaded_file(s).data

\* A second file is about to be written after the first went through all five
\* steps, and a report was appended while its upload temp file existed.
C9_SecondFileAfterFirst ==
    \E s \in DOMAIN session :
        /\ session[s].pc = "remove" /\ session[s].i = 2
        /\ fs[image_path(uploaded_file(s).name)] # NoFile
        /\ Len(session[s].history) = 2

\* What analyze_medical_image returns for the upload named `name` when its
\* session runs alone.
AloneReports(name) ==
    {Content(f.data.id) : f \in {g \in Catalog : g.name = name}}
        \cup {ErrorReport(d) : d \in ErrDetails}

\* C10: with different filenames in the two sessions, every stored report is one
\* the analysis gives when run alone, and no run ends in an exception (alone,
\* the two good images raise none).
C10_SessionsDoNotInterfere ==
    \A s \in DOMAIN session :
        /\ session[s].exception = NoException
        /\ \A k \in 1..Len(session[s].history) :
               session[s].history[k].report \in AloneReports(session[s].history[k].filename)

====
